---- MODULE Spec2Model ----
(***************************************************************************)
(* Model of the log polling state machine of src/api.rs: LogStream, its    *)
(* constructor log_stream and its Stream::poll implementation.             *)
(*                                                                         *)
(* One LogStream instance is the record spread over the per-stream         *)
(* variables below.  Stream 1 is the stream under study; stream 2 is a     *)
(* fresh instance that the caller may create from the `to` of the last     *)
(* item stream 1 yielded (restart from a saved cursor).                    *)
(*                                                                         *)
(* poll() is a loop over the match on self.state.  Each match arm is one   *)
(* action; pc tells whether a poll call is running.  The node and the      *)
(* timer are scripted: node[k] is the height the node answers to the k-th  *)
(* blockNumber call, fault names the one tick or RPC call that fails (if   *)
(* any).  Whether an answer has already arrived when a future is polled    *)
(* (NotReady or not) is chosen freely at every poll.                       *)
(*                                                                         *)
(* u64 is scaled down to Width bits: TLC's integers are 32 bits wide.      *)
(***************************************************************************)
EXTENDS Integers, Sequences, FiniteSets, TLC

\* ---------------------------------------------------------------- bounds
Width == 8
MaxTicks == 2

Modulus == 2 ^ Width
MaxU64 == Modulus - 1

Streams == {1, 2}

\* caller-supplied LogStreamInit.after / LogStreamInit.confirmations
Afters == {0, 1, 100, MaxU64 - 1, MaxU64}
Confs == {0, 1, 10, MaxU64}
\* values the node may answer to blockNumber (a U256, wider than u64)
NodeHeights == {0, 5, 105, 110, MaxU64, Modulus + 105}
\* blocks of the chain that carry a log matching the filter template
LogBlocks == {101, 106}

NoFault == [kind |-> "none", at |-> 0]
Faults == {NoFault} \cup [kind : {"timer", "blockNumber", "getLogs"}, at : 1..MaxTicks]

VARIABLES
  node,            \* node[k]: height answered to the k-th blockNumber call
  fault,           \* the tick / RPC call that fails in this run
  live,            \* live[s]: the instance has been constructed
  init,            \* init[s]: the LogStreamInit it was constructed from
  state,           \* self.state
  after,           \* self.after
  confirmations,   \* self.confirmations
  cycle,           \* ticks of self.interval consumed so far
  planner,         \* locals last_block / last_confirmed_block of the last plan
  requests,        \* RPC requests issued through self.transport
  inflight,        \* those of them whose future has not resolved yet
  pc,              \* "idle" | "polling": position of the consumer in poll()
  result,          \* what the last poll() call returned
  emitted          \* items poll() has yielded so far

vars == <<node, fault, live, init, state, after, confirmations, cycle,
          planner, requests, inflight, pc, result, emitted>>

\* ------------------------------------------------------- LogStreamState
StateWait == [tag |-> "Wait", from |-> 0, to |-> 0, item |-> <<>>]
StateFetchBlockNumber == [tag |-> "FetchBlockNumber", from |-> 0, to |-> 0, item |-> <<>>]
StateFetchLogs(from, to) == [tag |-> "FetchLogs", from |-> from, to |-> to, item |-> <<>>]
StateNextItem_Dropped(item) == StateWait
\* item is an Option<LogStreamItem>: <<>> is None, <<i>> is Some(i)
StateNextItem(item) == [tag |-> "NextItem", from |-> 0, to |-> 0, item |-> item]

LogStreamItem_NoLogs(from, to, logs) == [from |-> from, to |-> to, logs |-> {}]
LogStreamItem(from, to, logs) == [from |-> from, to |-> to, logs |-> logs]

RequestBlockNumber == [kind |-> "blockNumber", from |-> 0, to |-> 0]
RequestLogs(from, to) == [kind |-> "getLogs", from |-> from, to |-> to]

NoPlan == [cycle |-> 0, last_block |-> 0, last_confirmed_block |-> 0]

\* ------------------------------------------------------ pure arithmetic
\* U256::low_u64
low_u64(h) == h % Modulus

saturating_sub_Wrapping(a, b) == (a - b + Modulus) % Modulus
\* u64::saturating_sub
saturating_sub(a, b) == IF a >= b THEN a - b ELSE 0

\* let last_confirmed_block = last_block.saturating_sub(self.confirmations as u64)
LastConfirmedBlock(last_block, confs) == saturating_sub(last_block, confs)

HasNewRange_Geq(last_confirmed_block, aft) == last_confirmed_block >= aft
\* if last_confirmed_block > self.after
HasNewRange(last_confirmed_block, aft) == last_confirmed_block > aft

RangeFrom_NoIncrement(aft) == aft
\* let from = self.after + 1   (u64 addition)
RangeFrom(aft) == (aft + 1) % Modulus

\* the node's answer to getLogs for the filter bounded to [from, to]
NodeLogs(from, to) == {b \in LogBlocks : from <= b /\ b <= to}

PlanRange_Swapped(last_confirmed_block, aft) ==
  IF HasNewRange(last_confirmed_block, aft)
    THEN StateFetchLogs(last_confirmed_block, RangeFrom(aft))
    ELSE StateWait
\* next_state of the FetchBlockNumber arm once the height is known
PlanRange(last_confirmed_block, aft) ==
  IF HasNewRange(last_confirmed_block, aft)
    THEN StateFetchLogs(RangeFrom(aft), last_confirmed_block)
    ELSE StateWait

CursorAfterItem_Stale(aft, to) == aft
CursorAfterItem_PlusOne(aft, to) == (to + 1) % Modulus
\* self.after = to
CursorAfterItem(aft, to) == to

InitialAfter_Zero(i) == 0
\* log_stream: after: init.after
InitialAfter(i) == i.after

\* ----------------------------------------------------------------- Init
Init ==
  /\ node \in [1..MaxTicks -> NodeHeights]
  /\ fault \in Faults
  /\ live = [s \in Streams |-> s = 1]
  /\ \E a \in Afters, c \in Confs :
       /\ init = [s \in Streams |-> IF s = 1 THEN [after |-> a, confirmations |-> c]
                                              ELSE [after |-> 0, confirmations |-> 0]]
       /\ after = [s \in Streams |-> IF s = 1 THEN InitialAfter([after |-> a, confirmations |-> c]) ELSE 0]
       /\ confirmations = [s \in Streams |-> IF s = 1 THEN c ELSE 0]
  /\ state = [s \in Streams |-> StateWait]
  /\ cycle = [s \in Streams |-> 0]
  /\ planner = [s \in Streams |-> NoPlan]
  /\ requests = [s \in Streams |-> <<>>]
  /\ inflight = [s \in Streams |-> <<>>]
  /\ pc = [s \in Streams |-> "idle"]
  /\ result = [s \in Streams |-> "Unpolled"]
  /\ emitted = [s \in Streams |-> <<>>]

\* -------------------------------------------------------------- helpers
\* `return r` out of poll(): self.state keeps the value it had
Return(s, r) ==
  /\ pc' = [pc EXCEPT ![s] = "idle"]
  /\ result' = [result EXCEPT ![s] = r]

\* `self.state = next_state` at the bottom of the loop; the loop goes on
Continue(s, next_state) ==
  /\ state' = [state EXCEPT ![s] = next_state]
  /\ UNCHANGED <<pc, result>>

FaultAt(s, kind) == fault = [kind |-> kind, at |-> cycle[s]]

\* the transport is handed the requests `issued` after `resolved` (0 or 1)
\* of the futures it still owed have resolved, with a value or an error
Transport(s, resolved, issued) ==
  /\ requests' = [requests EXCEPT ![s] = @ \o issued]
  /\ inflight' = [inflight EXCEPT ![s] = SubSeq(@, resolved + 1, Len(@)) \o issued]

Web3Error_Swallow(s) ==
  /\ Continue(s, StateWait)
  /\ Transport(s, 1, <<>>)
  /\ UNCHANGED <<after, cycle, planner, emitted>>
\* try_ready!(future.poll().map_err(ErrorKind::Web3)) on Err(e): return Err(e.into())
Web3Error(s) ==
  /\ Return(s, "Err")
  /\ Transport(s, 1, <<>>)
  /\ UNCHANGED <<state, after, cycle, planner, emitted>>

NotReady_Reissue(s) ==
  /\ Return(s, "NotReady")
  /\ Transport(s, 0, <<inflight[s][Len(inflight[s])]>>)
  /\ UNCHANGED <<state, after, cycle, planner, emitted>>
\* try_ready!(...) on Ok(Async::NotReady): return Ok(Async::NotReady)
NotReady(s) ==
  /\ Return(s, "NotReady")
  /\ UNCHANGED <<state, after, cycle, planner, requests, inflight, emitted>>

\* try_stream!(self.interval.poll()) while no tick is due: poll() suspends
TickNotReady(s) ==
  /\ Return(s, "NotReady")
  /\ UNCHANGED <<state, after, cycle, planner, requests, inflight, emitted>>

TickError_Ignored(s) ==
  /\ Continue(s, StateFetchBlockNumber)
  /\ Transport(s, 0, <<RequestBlockNumber>>)
  /\ UNCHANGED <<after, cycle, planner, emitted>>
\* try_stream!(self.interval.poll()) when the timer itself fails: fatal
TickError(s) ==
  /\ Return(s, "Err")
  /\ UNCHANGED <<state, after, cycle, planner, requests, inflight, emitted>>

\* -------------------------------------------------------------- actions
\* the consumer calls poll(); it stops polling once poll() returned an error
Poll(s) ==
  /\ live[s]
  /\ pc[s] = "idle"
  /\ result[s] # "Err"
  /\ pc' = [pc EXCEPT ![s] = "polling"]
  /\ UNCHANGED <<node, fault, live, init, state, after, confirmations, cycle,
                 planner, requests, inflight, result, emitted>>

\* LogStreamState::Wait => { try_stream!(self.interval.poll()); FetchBlockNumber(block_number(..)) }
WaitArm(s) ==
  /\ pc[s] = "polling"
  /\ state[s].tag = "Wait"
  /\ \/ TickNotReady(s)
     \/ /\ fault = [kind |-> "timer", at |-> cycle[s] + 1]
        /\ TickError(s)
     \/ /\ cycle[s] < MaxTicks
        /\ fault # [kind |-> "timer", at |-> cycle[s] + 1]
        /\ cycle' = [cycle EXCEPT ![s] = @ + 1]
        /\ Transport(s, 0, <<RequestBlockNumber>>)
        /\ Continue(s, StateFetchBlockNumber)
        /\ UNCHANGED <<after, planner, emitted>>
  /\ UNCHANGED <<node, fault, live, init, confirmations>>

\* LogStreamState::FetchBlockNumber(ref mut future) => { ... }
FetchBlockNumberArm(s) ==
  /\ pc[s] = "polling"
  /\ state[s].tag = "FetchBlockNumber"
  /\ \/ NotReady(s)
     \/ /\ FaultAt(s, "blockNumber")
        /\ Web3Error(s)
     \/ /\ ~FaultAt(s, "blockNumber")
        /\ LET last_block == low_u64(node[cycle[s]])
               last_confirmed_block == LastConfirmedBlock(last_block, confirmations[s])
               next_state == PlanRange(last_confirmed_block, after[s])
           IN /\ planner' = [planner EXCEPT ![s] =
                    [cycle |-> cycle[s], last_block |-> last_block,
                     last_confirmed_block |-> last_confirmed_block]]
              /\ Transport(s, 1,
                    IF next_state.tag = "FetchLogs"
                      THEN <<RequestLogs(next_state.from, next_state.to)>>
                      ELSE <<>>)
              /\ Continue(s, next_state)
        /\ UNCHANGED <<after, cycle, emitted>>
  /\ UNCHANGED <<node, fault, live, init, confirmations>>

\* LogStreamState::FetchLogs { ref mut future, from, to } => { ... }
FetchLogsArm(s) ==
  /\ pc[s] = "polling"
  /\ state[s].tag = "FetchLogs"
  /\ \/ NotReady(s)
     \/ /\ FaultAt(s, "getLogs")
        /\ Web3Error(s)
     \/ /\ ~FaultAt(s, "getLogs")
        /\ LET from == state[s].from
               to == state[s].to
               item == LogStreamItem(from, to, NodeLogs(from, to))
           IN /\ after' = [after EXCEPT ![s] = CursorAfterItem(after[s], to)]
              /\ Continue(s, StateNextItem(<<item>>))
        /\ Transport(s, 1, <<>>)
        /\ UNCHANGED <<cycle, planner, emitted>>
  /\ UNCHANGED <<node, fault, live, init, confirmations>>

\* the arms in the other order: None => Wait, some => return Ok(some.into())
NextItemArm_NoneFirst(s) ==
  /\ pc[s] = "polling"
  /\ state[s].tag = "NextItem"
  /\ LET some == state[s].item
     IN IF some # <<>>
          THEN /\ state' = [state EXCEPT ![s] = StateNextItem(<<>>)]
               /\ Return(s, "Item")
               /\ emitted' = [emitted EXCEPT ![s] = Append(@, some[1])]
          ELSE /\ Continue(s, StateWait)
               /\ UNCHANGED emitted
  /\ UNCHANGED <<node, fault, live, init, after, confirmations, cycle, planner,
                 requests, inflight>>

\* LogStreamState::NextItem(ref mut item) => match item.take() {
\*     some => return Ok(some.into()),
\*     None => LogStreamState::Wait,
\* }
\* `some` is an identifier pattern: it binds whatever item.take() gave,
\* None included, so the second arm is never taken.  item.take() has
\* already left None in self.state when poll returns.
NextItemArm(s) ==
  /\ pc[s] = "polling"
  /\ state[s].tag = "NextItem"
  /\ LET some == state[s].item
     IN /\ state' = [state EXCEPT ![s] = StateNextItem(<<>>)]
        /\ IF some # <<>>
             THEN /\ Return(s, "Item")
                  /\ emitted' = [emitted EXCEPT ![s] = Append(@, some[1])]
             ELSE /\ Return(s, "End")
                  /\ UNCHANGED emitted
  /\ UNCHANGED <<node, fault, live, init, after, confirmations, cycle, planner,
                 requests, inflight>>

\* log_stream(transport, LogStreamInit { after: <last emitted to>, .. }):
\* the caller re-creates the stream from the cursor it saved
Restart ==
  /\ live[1] /\ ~live[2]
  /\ pc[1] = "idle"
  /\ emitted[1] # <<>>
  /\ LET i == [after |-> emitted[1][Len(emitted[1])].to,
               confirmations |-> init[1].confirmations]
     IN /\ init' = [init EXCEPT ![2] = i]
        /\ after' = [after EXCEPT ![2] = InitialAfter(i)]
        /\ confirmations' = [confirmations EXCEPT ![2] = i.confirmations]
  /\ live' = [live EXCEPT ![2] = TRUE]
  /\ cycle' = [cycle EXCEPT ![2] = cycle[1]]
  /\ UNCHANGED <<node, fault, state, planner, requests, inflight, pc, result, emitted>>

Next ==
  \/ \E s \in Streams : Poll(s)
  \/ \E s \in Streams : WaitArm(s)
  \/ \E s \in Streams : FetchBlockNumberArm(s)
  \/ \E s \in Streams : FetchLogsArm(s)
  \/ \E s \in Streams : NextItemArm(s)
  \/ Restart

Spec == Init /\ [][Next]_vars

\* ------------------------------------------------------------ properties
\* a step of stream s inside poll()
Stepped(s) == pc'[s] # pc[s] \/ state'[s] # state[s] \/ result'[s] # result[s]

\* the confirmed height max(0, h - c), written out
Confirmed(h, c) == IF h >= c THEN h - c ELSE 0

\* the <<from, to>> bounds of a sequence of items
Ranges(items) == [k \in 1..Len(items) |-> <<items[k].from, items[k].to>>]

IsPrefix(p, q) == Len(p) <= Len(q) /\ \A k \in 1..Len(p) : p[k] = q[k]

\* C2: with no failure, two sequential ticks on which the node reports h1
\* then h2, with after < h1 - confirmations < h2 - confirmations, make the
\* stream emit {after+1, h1-confirmations} and then
\* {h1-confirmations+1, h2-confirmations}: the stream does not end before
\* both have been yielded.
SequentialTicksEmitTwoItems ==
  LET a == init[1].after
      c == init[1].confirmations
      h1 == node[1] % Modulus
      h2 == node[2] % Modulus
  IN (/\ fault = NoFault
      /\ h1 >= c /\ a < h1 - c /\ h1 - c < h2 - c
      /\ result[1] = "End")
     => (/\ Len(emitted[1]) >= 2
         /\ Ranges(emitted[1])[1] = <<a + 1, h1 - c>>
         /\ Ranges(emitted[1])[2] = <<h1 - c + 1, h2 - c>>)

\* C3: when the first cycle succeeds and getLogs fails on the second tick's
\* cycle, the stream yields the first item and then stops with an error
\* (not with end-of-stream), having issued nothing after the failed getLogs.
SecondGetLogsFailureIsTerminalError ==
  LET a == init[1].after
      c == init[1].confirmations
      h1 == node[1] % Modulus
      h2 == node[2] % Modulus
  IN (/\ fault = [kind |-> "getLogs", at |-> 2]
      /\ h1 >= c /\ a < h1 - c /\ h1 - c < h2 - c
      /\ result[1] \in {"End", "Err"})
     => (/\ result[1] = "Err"
         /\ Ranges(emitted[1]) = << <<a + 1, h1 - c>> >>
         /\ requests[1][Len(requests[1])] = [kind |-> "getLogs", from |-> h1 - c + 1, to |-> h2 - c])

\* C4: poll never returns end-of-stream (Ready(None)): the stream stops only
\* on an error.
NeverEndOfStream == \A s \in Streams : result[s] # "End"

\* C5: a poll that finds the in-flight blockNumber or getLogs request failed
\* returns an error, yields no item, leaves the machine where it was and
\* issues no request; once the error is returned nothing more is issued or
\* yielded.
RpcFailureIsReturnedNotRetried ==
  [][\A s \in Streams :
       /\ (/\ pc[s] = "polling"
           /\ \/ state[s].tag = "FetchBlockNumber" /\ fault = [kind |-> "blockNumber", at |-> cycle[s]]
              \/ state[s].tag = "FetchLogs" /\ fault = [kind |-> "getLogs", at |-> cycle[s]]
           /\ Stepped(s))
          => (/\ pc'[s] = "idle"
              /\ result'[s] \in {"NotReady", "Err"}
              /\ state'[s] = state[s]
              /\ requests'[s] = requests[s]
              /\ emitted'[s] = emitted[s]
              /\ after'[s] = after[s])
       /\ result[s] = "Err"
          => (/\ result'[s] = "Err"
              /\ requests'[s] = requests[s]
              /\ emitted'[s] = emitted[s]
              /\ state'[s] = state[s])]_vars

RpcFailureObserved ==
  \E s \in Streams :
    /\ result[s] = "Err"
    /\ state[s].tag = "FetchLogs"
    /\ fault = [kind |-> "getLogs", at |-> cycle[s]]
    /\ requests[s][Len(requests[s])].kind = "getLogs"
    /\ emitted[s] = <<>>

\* C6: a height response whose confirmed height exceeds the cursor issues
\* exactly one getLogs bounded to [cursor.after + 1, confirmed]; the item
\* built and later yielded for that cycle carries exactly these bounds.
PlannedRangeIsRequestedAndEmitted ==
  [][\A s \in Streams :
       /\ (state[s].tag = "FetchBlockNumber" /\ state'[s].tag # "FetchBlockNumber")
          => LET confirmed == Confirmed(node[cycle[s]] % Modulus, confirmations[s])
             IN confirmed > after[s]
                => (/\ state'[s].tag = "FetchLogs"
                    /\ state'[s].from = after[s] + 1
                    /\ state'[s].to = confirmed
                    /\ requests'[s] = Append(requests[s],
                          [kind |-> "getLogs", from |-> after[s] + 1, to |-> confirmed]))
       /\ (state[s].tag = "FetchLogs" /\ state'[s].tag # "FetchLogs")
          => (/\ state'[s].tag = "NextItem"
              /\ Ranges(state'[s].item) = << <<state[s].from, state[s].to>> >>
              /\ requests'[s] = requests[s])
       /\ emitted'[s] # emitted[s]
          => (/\ state[s].tag = "NextItem"
              /\ emitted'[s] = emitted[s] \o state[s].item
              /\ requests'[s] = requests[s])]_vars

\* Scenario A: after=100, confirmations=0, height 105 gives {from:101, to:105}
ScenarioA ==
  /\ init[1] = [after |-> 100, confirmations |-> 0]
  /\ node[1] = 105
  /\ Ranges(emitted[1]) = << <<101, 105>> >>
  /\ requests[1] = <<[kind |-> "blockNumber", from |-> 0, to |-> 0],
                     [kind |-> "getLogs", from |-> 101, to |-> 105]>>

\* C7: a height response whose confirmed height does not exceed the cursor
\* is a silent no-op: no getLogs, no item, no error, cursor unchanged, back
\* to Wait with the poll loop still running.
NoNewRangeIsSilentNoOp ==
  [][\A s \in Streams :
       (/\ state[s].tag = "FetchBlockNumber"
        /\ state'[s].tag # "FetchBlockNumber"
        /\ Confirmed(node[cycle[s]] % Modulus, confirmations[s]) <= after[s])
       => (/\ state'[s] = StateWait
           /\ requests'[s] = requests[s]
           /\ emitted'[s] = emitted[s]
           /\ after'[s] = after[s]
           /\ result'[s] = result[s]
           /\ pc'[s] = "polling")]_vars

\* Scenario B: after=100, confirmations=10, height 105 emits nothing
ScenarioB ==
  /\ init[1] = [after |-> 100, confirmations |-> 10]
  /\ node[1] = 105
  /\ cycle[1] = 1
  /\ pc[1] = "polling"
  /\ state[1] = StateWait
  /\ after[1] = 100
  /\ requests[1] = <<[kind |-> "blockNumber", from |-> 0, to |-> 0]>>
  /\ emitted[1] = <<>>

\* C8: when confirmations exceeds the reported height the confirmed height
\* is exactly 0 (never the difference modulo 2^Width), and the cycle yields
\* no item and no error.
ConfirmationsAboveHeightClampToZero ==
  [][\A s \in Streams :
       (/\ planner'[s] # planner[s]
        /\ confirmations[s] > node[cycle[s]] % Modulus)
       => (/\ planner'[s].last_block = node[cycle[s]] % Modulus
           /\ planner'[s].last_confirmed_block = 0
           /\ state'[s] = StateWait
           /\ emitted'[s] = emitted[s]
           /\ requests'[s] = requests[s]
           /\ result'[s] = result[s])]_vars

ClampedPlan ==
  \E s \in Streams :
    /\ planner[s].cycle = cycle[s] /\ cycle[s] >= 1
    /\ confirmations[s] > planner[s].last_block
    /\ planner[s].last_block > after[s]
    /\ planner[s].last_confirmed_block = 0
    /\ state[s] = StateWait

\* C9: a stream created with after = X never yields an item whose range
\* reaches into [0, X]: every yielded item has from >= X + 1.
NoItemAtOrBelowInitialCursor ==
  \A s \in Streams : \A k \in 1..Len(emitted[s]) :
    emitted[s][k].from >= init[s].after + 1

ItemAboveInitialCursor ==
  \E s \in Streams :
    /\ init[s].after > 0
    /\ emitted[s] # <<>>
    /\ emitted[s][1].from = init[s].after + 1

\* C10: a fresh stream created with after = the `to` of the last item the
\* first stream yielded emits, for the same ticks and node responses, the
\* items the first stream emits after that item: once the first stream has
\* ended, the fresh stream has yielded nothing the first one did not.
RestartEquivalence ==
  LET Subsequent1 == SelectSeq(emitted[1], LAMBDA it : it.from > init[2].after)
  IN (live[2] /\ result[1] = "End") => IsPrefix(emitted[2], Subsequent1)

\* the elements of a sequence
Elems(q) == {q[k] : k \in 1..Len(q)}

\* C11: every item built or yielded carries the bounds of a getLogs request
\* that was issued and has resolved, and the logs the node holds for these
\* bounds; while the getLogs for [from, to] is pending or has failed, no item
\* reaches into that range and cursor.after is still from - 1.
ItemsComeFromCompletedGetLogs ==
  \A s \in Streams :
    /\ \A it \in Elems(emitted[s]) \cup Elems(state[s].item) :
         /\ [kind |-> "getLogs", from |-> it.from, to |-> it.to] \in Elems(requests[s])
         /\ [kind |-> "getLogs", from |-> it.from, to |-> it.to] \notin Elems(inflight[s])
         /\ it.logs = {b \in LogBlocks : it.from <= b /\ b <= it.to}
    /\ state[s].tag = "FetchLogs"
       => (/\ after[s] = state[s].from - 1
           /\ \A it \in Elems(emitted[s]) : it.to < state[s].from)

ItemWithLogsEmitted ==
  \E s \in Streams :
    /\ emitted[s] # <<>>
    /\ emitted[s][1].logs # {}
    /\ inflight[s] = <<>>
    /\ Len(requests[s]) = 2

\* C12: cursor.after never decreases; the only step that changes it is the
\* successful completion of getLogs for the planned range [from, to] with
\* from = old cursor.after + 1, which sets it to to (> old value) in the step
\* that builds the item; ticks, height responses, no-op cycles, yields and
\* errors leave it unchanged.
CursorMovesOnlyWhenItemIsBuilt ==
  [][\A s \in Streams :
       live[s] =>
         /\ after'[s] >= after[s]
         /\ (state[s].tag = "FetchLogs" /\ state'[s].tag # "FetchLogs")
            => (/\ state[s].from = after[s] + 1
                /\ after'[s] = state[s].to
                /\ after'[s] > after[s]
                /\ Ranges(state'[s].item) = << <<after[s] + 1, after'[s]>> >>)
         /\ after'[s] # after[s]
            => (/\ state[s].tag = "FetchLogs"
                /\ state'[s].tag = "NextItem"
                /\ result'[s] = result[s]
                /\ emitted'[s] = emitted[s])]_vars

CursorAdvancedWithItem ==
  \E s \in Streams :
    /\ state[s].tag = "NextItem"
    /\ state[s].item # <<>>
    /\ after[s] = state[s].item[1].to
    /\ after[s] > init[s].after + 1

\* C13 (as stated): in every reachable state cursor.after is the initial
\* after or the to of an item poll has already yielded.
CursorIsInitialOrYielded ==
  \A s \in Streams :
    live[s] =>
      \/ after[s] = init[s].after
      \/ \E it \in Elems(emitted[s]) : it.to = after[s]

\* C13 (amended): cursor.after is the initial after or the to of an item
\* already yielded, except inside the poll call that completed the getLogs,
\* where it is the to of the item this call holds and is about to yield;
\* between poll calls the statement holds as given.
CursorIsInitialOrYieldedBetweenPolls ==
  \A s \in Streams :
    live[s] =>
      \/ after[s] = init[s].after
      \/ \E it \in Elems(emitted[s]) : it.to = after[s]
      \/ /\ pc[s] = "polling"
         /\ state[s].tag = "NextItem"
         /\ \E it \in Elems(state[s].item) : it.to = after[s]

CursorAtYieldedItem ==
  \E s \in Streams :
    /\ pc[s] = "idle"
    /\ after[s] # init[s].after
    /\ emitted[s] # <<>>
    /\ emitted[s][Len(emitted[s])].to = after[s]

\* C14: every planned range and every item built or yielded has from <= to,
\* whatever the initial cursor, the confirmations and the reported heights.
ItemBoundsAreOrdered ==
  \A s \in Streams :
    /\ \A it \in Elems(emitted[s]) \cup Elems(state[s].item) : it.from <= it.to
    /\ state[s].tag = "FetchLogs" => state[s].from <= state[s].to

\* the tightest case: a one-block range
SingleBlockItemEmitted ==
  \E s \in Streams :
    /\ emitted[s] # <<>>
    /\ emitted[s][1].from = emitted[s][1].to
    /\ emitted[s][1].from = init[s].after + 1

\* C15: when the tick source fails while the machine is in Wait, poll
\* returns an error, issues no blockNumber request, yields no item and
\* leaves cursor.after alone, and nothing happens afterwards; ticks are
\* taken from the tick source only in the Wait state.
TimerFailureIsTerminal ==
  [][\A s \in Streams :
       /\ (/\ pc[s] = "polling"
           /\ state[s].tag = "Wait"
           /\ fault = [kind |-> "timer", at |-> cycle[s] + 1]
           /\ Stepped(s))
          => (/\ pc'[s] = "idle"
              /\ result'[s] \in {"NotReady", "Err"}
              /\ state'[s] = state[s]
              /\ cycle'[s] = cycle[s]
              /\ requests'[s] = requests[s]
              /\ emitted'[s] = emitted[s]
              /\ after'[s] = after[s])
       /\ (live[s] /\ cycle'[s] # cycle[s]) => state[s].tag = "Wait"
       /\ (fault.kind = "timer" /\ result'[s] = "Err")
          => (/\ state'[s].tag = "Wait"
              /\ cycle'[s] = cycle[s]
              /\ requests'[s] = requests[s]
              /\ emitted'[s] = emitted[s]
              /\ after'[s] = after[s])]_vars

TimerFailureObserved ==
  \E s \in Streams :
    /\ result[s] = "Err"
    /\ pc[s] = "idle"
    /\ state[s].tag = "Wait"
    /\ fault = [kind |-> "timer", at |-> cycle[s] + 1]
    /\ inflight[s] = <<>>

\* C16: in NextItem the machine yields the item it holds exactly once and
\* discards it; polled again with the item gone it moves to Wait and the
\* poll goes on to wait on the tick source, yielding nothing.
EmitYieldsOnceThenWaits ==
  [][\A s \in Streams :
       (pc[s] = "polling" /\ state[s].tag = "NextItem" /\ Stepped(s))
       => IF state[s].item # <<>>
            THEN /\ emitted'[s] = emitted[s] \o state[s].item
                 /\ result'[s] = "Item"
                 /\ state'[s].item = <<>>
            ELSE /\ state'[s] = StateWait
                 /\ pc'[s] = "polling"
                 /\ result'[s] = result[s]
                 /\ emitted'[s] = emitted[s]]_vars

\* C17: at most one RPC request of a stream is outstanding at any time,
\* it is the one the current state waits for, and a blockNumber request is
\* issued only from Wait with nothing outstanding, however often the stream
\* is polled while a request is pending.
AtMostOneRequestInFlight ==
  [][\A s \in Streams :
       /\ Len(inflight[s]) <= 1 /\ Len(inflight'[s]) <= 1
       /\ \A r \in Elems(inflight'[s]) :
            \/ r.kind = "blockNumber" /\ state'[s].tag = "FetchBlockNumber"
            \/ r.kind = "getLogs" /\ state'[s].tag = "FetchLogs"
       /\ requests'[s] # requests[s]
          => (/\ Len(requests'[s]) = Len(requests[s]) + 1
              /\ requests'[s][Len(requests'[s])].kind = "blockNumber"
                 => (state[s].tag = "Wait" /\ inflight[s] = <<>>)
              /\ requests'[s][Len(requests'[s])].kind = "getLogs"
                 => (state[s].tag = "FetchBlockNumber"
                     /\ inflight[s] = <<[kind |-> "blockNumber", from |-> 0, to |-> 0]>>
                     /\ Len(inflight'[s]) = 1))]_vars

\* a getLogs request still pending after a poll has returned NotReady
RequestPendingAcrossPolls ==
  \E s \in Streams :
    /\ pc[s] = "idle"
    /\ result[s] = "NotReady"
    /\ state[s].tag = "FetchLogs"
    /\ Len(inflight[s]) = 1
    /\ inflight[s][1].kind = "getLogs"
    /\ Len(requests[s]) = 2

\* C18: while a built item is held in NextItem and not yet taken, the only
\* thing the machine does is hand it to the consumer: it takes no tick and
\* issues no request; a tick is taken only when every item built so far has
\* been handed off.
NoNewCycleWhileItemPending ==
  [][\A s \in Streams :
       /\ (state[s].tag = "NextItem" /\ state[s].item # <<>> /\ Stepped(s))
          => (/\ cycle'[s] = cycle[s]
              /\ requests'[s] = requests[s]
              /\ emitted'[s] = emitted[s] \o state[s].item
              /\ result'[s] = "Item")
       /\ (live[s] /\ cycle'[s] # cycle[s])
          => (/\ state[s].item = <<>>
              /\ \/ after[s] = init[s].after
                 \/ \E it \in Elems(emitted[s]) : it.to = after[s])]_vars

\* an item is held while the tick source still has ticks to give
ItemPendingWithTicksLeft ==
  \E s \in Streams :
    /\ pc[s] = "polling"
    /\ state[s].tag = "NextItem"
    /\ state[s].item # <<>>
    /\ cycle[s] < MaxTicks
    /\ fault = NoFault

\* C19: once poll has yielded an item the state is NextItem(None) for good:
\* every later poll returns end-of-stream without taking a tick, issuing a
\* request or touching cursor.after, so an instance yields at most one item.
OneItemThenEndOfStreamForever ==
  [][\A s \in Streams :
       emitted[s] # <<>>
       => (/\ Len(emitted[s]) = 1
           /\ state[s] = [tag |-> "NextItem", from |-> 0, to |-> 0, item |-> <<>>]
           /\ state'[s] = state[s]
           /\ emitted'[s] = emitted[s]
           /\ cycle'[s] = cycle[s]
           /\ requests'[s] = requests[s]
           /\ after'[s] = after[s]
           /\ (pc[s] = "polling" /\ Stepped(s))
              => (result'[s] = "End" /\ pc'[s] = "idle"))]_vars

\* end-of-stream after one item although ticks remain and nothing failed
EndOfStreamAfterOneItem ==
  \E s \in Streams :
    /\ result[s] = "End"
    /\ Len(emitted[s]) = 1
    /\ cycle[s] < MaxTicks
    /\ fault = NoFault
    /\ after[s] = emitted[s][1].to

\* C20: from = cursor.after + 1 is computed only when last_confirmed_block >
\* cursor.after, hence with cursor.after below the largest u64: the sum never
\* leaves the u64 range, for every initial cursor and every reported height
\* (taken by its low bits).
RangeFromNeverOverflows ==
  [][\A s \in Streams :
       (state[s].tag = "FetchBlockNumber" /\ state'[s].tag = "FetchLogs")
       => (/\ after[s] < 2 ^ Width - 1
           /\ after[s] + 1 <= 2 ^ Width - 1
           /\ state'[s].from = after[s] + 1
           /\ state'[s].from > 0
           /\ state'[s].to <= 2 ^ Width - 1)]_vars

\* the largest cursor for which a range can exist: from is the largest u64
RangeFromAtTopOfRange ==
  \E s \in Streams :
    /\ state[s].tag = "FetchLogs"
    /\ init[s].after = 2 ^ Width - 2
    /\ state[s].from = 2 ^ Width - 1
    /\ state[s].to = 2 ^ Width - 1
====
